---------------------------- MODULE Spec2Model ----------------------------
(***************************************************************************)
(* A model of the PFS datamodel serialization and identity layer:          *)
(*   python/pfs/datamodel/drp.py              identity grammars of the     *)
(*                                            reduction products           *)
(*   python/pfs/datamodel/pfsFiberProfiles.py CalibIdentity and the        *)
(*                                            PfsFiberProfiles container   *)
(*                                                                         *)
(* Strings are sequences of one-character strings, so that formatting and  *)
(* regular-expression matching are computed character by character.        *)
(* Floating-point values are integers; the 32-bit narrowing of the FITS    *)
(* "E" columns is computed by F32.                                         *)
(***************************************************************************)
EXTENDS Integers, Sequences, FiniteSets, TLC

VARIABLES
    nameRes,   \* outcome of the last filename operation (getFilename, parseFilename, ...)
    held,      \* the PfsFiberProfiles the caller holds (last one the constructor returned)
    loaded,    \* the PfsFiberProfiles the last readFits/read returned
    disk,      \* the file system: path -> FITS file (HDUList) or NoFile
    wrote,     \* history: path -> the product whose writeFits last completed on it
    last,      \* outcome of the last constructor / read / write call
    openHandles, \* file handles currently open
    args       \* the arguments the caller has prepared for the constructor

vars == <<nameRes, held, loaded, disk, wrote, last, openHandles, args>>

----------------------------------------------------------------------------
(* Outcomes of a call: a returned value or a raised exception.             *)

Ok(v) == [ok |-> TRUE, val |-> v]

Err(kind) == [ok |-> FALSE, err |-> kind]

----------------------------------------------------------------------------
(* Characters.                                                             *)

Digits == {"0", "1", "2", "3", "4", "5", "6", "7", "8", "9"}

HexChars == <<"0", "1", "2", "3", "4", "5", "6", "7", "8", "9",
              "a", "b", "c", "d", "e", "f">>

Letters == {"a", "b", "c", "d", "e", "f", "g", "h", "i", "j", "k", "l", "m",
            "n", "o", "p", "q", "r", "s", "t", "u", "v", "w", "x", "y", "z",
            "A", "F", "M", "O", "P", "R", "S", "X"}

Punctuation == {"-", ".", ",", "/", "_"}

Whitespace == {" "}

Alphabet == Digits \cup Letters \cup Punctuation \cup Whitespace

\* regex "." : any character but a newline (the alphabet holds no newline)
AnyChar == Alphabet

\* regex "\S"
NonSpace == Alphabet \ Whitespace

\* regex "\d"
DigitClass == Digits

Min(a, b) == IF a < b THEN a ELSE b

Max(a, b) == IF a < b THEN b ELSE a

----------------------------------------------------------------------------
(* Python: int(str), "%d" / "%x" / "%s" conversions, os.path.split.        *)

DigitVal(c) == (CHOOSE i \in 1..16 : HexChars[i] = c) - 1

RECURSIVE DecValue(_)
DecValue(s) ==
    IF s = <<>> THEN 0
    ELSE 10 * DecValue(SubSeq(s, 1, Len(s) - 1)) + DigitVal(s[Len(s)])

\* int(s) with the default base 10: digits only (a "0x" prefix is a ValueError)
PyInt(s) ==
    IF s # <<>> /\ \A i \in 1..Len(s) : s[i] \in Digits
    THEN Ok(DecValue(s))
    ELSE Err("ValueError")

RECURSIVE ToBase(_, _)
ToBase(n, base) ==
    IF n < base THEN <<HexChars[n + 1]>>
    ELSE ToBase(n \div base, base) \o <<HexChars[(n % base) + 1]>>

RECURSIVE Repeat(_, _)
Repeat(c, n) == IF n <= 0 THEN <<>> ELSE <<c>> \o Repeat(c, n - 1)

\* right-justify in a field of at least width characters
PadLeft(s, width, c) == Repeat(c, width - Len(s)) \o s

\* one "%(key)<flags><width><conv>" directive applied to a value
FormatValue(item, v) ==
    CASE item.conv = "d" -> PadLeft(ToBase(v, 10), item.width, IF item.zero THEN "0" ELSE " ")
      [] item.conv = "x" -> PadLeft(ToBase(v, 16), item.width, IF item.zero THEN "0" ELSE " ")
      [] item.conv = "s" -> PadLeft(v, item.width, " ")

\* format % mapping: KeyError when the mapping lacks a key of the template
RECURSIVE PercentFormat(_, _)
PercentFormat(fmt, d) ==
    IF fmt = <<>> THEN Ok(<<>>)
    ELSE LET item == fmt[1]
             rest == PercentFormat(Tail(fmt), d)
         IN IF item.t = "lit"
            THEN IF rest.ok THEN Ok(item.s \o rest.val) ELSE rest
            ELSE IF item.key \notin DOMAIN d THEN Err("KeyError")
                 ELSE IF rest.ok THEN Ok(FormatValue(item, d[item.key]) \o rest.val)
                      ELSE rest

RECURSIVE LastSlash(_, _)
LastSlash(path, i) ==
    IF i = 0 THEN 0 ELSE IF path[i] = "/" THEN i ELSE LastSlash(path, i - 1)

\* os.path.split(path)[1]: what follows the last "/"
BaseName(path) == SubSeq(path, LastSlash(path, Len(path)) + 1, Len(path))

\* os.path.join(dirName, fileName) for a relative fileName
PathJoin(dirName, fileName) ==
    IF dirName = <<>> THEN fileName
    ELSE IF dirName[Len(dirName)] = "/" THEN dirName \o fileName
         ELSE dirName \o <<"/">> \o fileName

----------------------------------------------------------------------------
(* Format templates and regular expressions as data.                       *)

\* a literal run of a format template
Lit(s) == [t |-> "lit", s |-> s]

\* a "%(key)..." directive of a format template
Fld(key, zero, width, conv) ==
    [t |-> "fld", key |-> key, zero |-> zero, width |-> width, conv |-> conv]

LitSeq(s) == <<Lit(s)>>

Unbounded == -1

\* a regex element: between min and max characters of cls, greedy, appended
\* to capture group grp (0: outside any group)
Elem(cls, min, max, grp) ==
    [t |-> "cls", cls |-> cls, min |-> min, max |-> max, grp |-> grp]

\* a run of literal characters of a regex
ReLitIn(s, grp) == <<[t |-> "lit", s |-> s, grp |-> grp]>>

ReLit(s) == ReLitIn(s, 0)

NoMatch == [matched |-> FALSE]

\* how many characters of cls stand at s[pos..], up to limit
RunLength(s, pos, cls, limit) ==
    LET lim == Min(limit, Len(s) - pos + 1)
    IN IF lim <= 0 THEN 0
       ELSE CHOOSE k \in 0..lim :
                /\ \A j \in 0..(k - 1) : s[pos + j] \in cls
                /\ (k = lim \/ s[pos + k] \notin cls)

Capture(caps, grp, sub) == IF grp = 0 THEN caps ELSE [caps EXCEPT ![grp] = @ \o sub]

\* backtracking match of elems[i..] at s[pos..]; toEnd is a trailing "$".
\* A repetition takes the longest run that lets the rest match.
RECURSIVE MatchFrom(_, _, _, _, _, _)
MatchFrom(elems, i, s, pos, caps, toEnd) ==
    IF i > Len(elems)
    THEN IF toEnd /\ pos # Len(s) + 1 THEN NoMatch
         ELSE [matched |-> TRUE, groups |-> caps]
    ELSE LET e == elems[i]
         IN IF e.t = "lit"
            THEN IF pos + Len(e.s) - 1 <= Len(s) /\ SubSeq(s, pos, pos + Len(e.s) - 1) = e.s
                 THEN MatchFrom(elems, i + 1, s, pos + Len(e.s), Capture(caps, e.grp, e.s), toEnd)
                 ELSE NoMatch
            ELSE LET hi == RunLength(s, pos, e.cls,
                                     IF e.max = Unbounded THEN Len(s) ELSE e.max)
                     try(k) == MatchFrom(elems, i + 1, s, pos + k,
                                         Capture(caps, e.grp, SubSeq(s, pos, pos + k - 1)), toEnd)
                     good == {k \in e.min..hi : try(k).matched}
                 IN IF good = {} THEN NoMatch
                    ELSE try(CHOOSE k \in good : \A k2 \in good : k2 <= k)

\* the match starting at the leftmost position that has one
SearchFrom(re, s) ==
    LET at(pos) == MatchFrom(re.elems, 1, s, pos, [g \in 1..re.ngroups |-> <<>>], re.toEnd)
        starts == {pos \in 1..(IF re.anchored THEN 1 ELSE Len(s) + 1) : at(pos).matched}
    IN IF starts = {} THEN NoMatch
       ELSE at(CHOOSE pos \in starts : \A p2 \in starts : pos <= p2)

\* re.search(regex, s): the leftmost match; "^" allows a match at the start only
ReSearch(re, s) == SearchFrom(re, s)

----------------------------------------------------------------------------
(* drp.py: the identity grammars of the reduction products.                *)

DotFits == <<".", "f", "i", "t", "s">>

\* "pfsArm-%(expId)06d-%(arm)1s%(spectrograph)1d.fits"
PfsArm_filenameFormat ==
    LitSeq(<<"p", "f", "s", "A", "r", "m", "-">>)
    \o <<Fld("expId", TRUE, 6, "d"), Lit(<<"-">>),
         Fld("arm", FALSE, 1, "s"), Fld("spectrograph", FALSE, 1, "d")>>
    \o LitSeq(DotFits)

\* r"^pfsArm-(\d{6})-([brnm])(\d)\.fits.*$"
PfsArm_filenameRegex ==
    [anchored |-> TRUE, toEnd |-> TRUE, ngroups |-> 3,
     elems |-> ReLit(<<"p", "f", "s", "A", "r", "m", "-">>)
               \o <<Elem(DigitClass, 6, 6, 1)>>
               \o ReLit(<<"-">>)
               \o <<Elem({"b", "r", "n", "m"}, 1, 1, 2), Elem(DigitClass, 1, 1, 3)>>
               \o ReLit(DotFits)
               \o <<Elem(AnyChar, 0, Unbounded, 0)>>]

PfsArm_filenameKeys == <<<<"expId", "int">>, <<"arm", "str">>, <<"spectrograph", "int">>>>

\* "pfsMerged-%(expId)06d.fits"
PfsMerged_filenameFormat ==
    LitSeq(<<"p", "f", "s", "M", "e", "r", "g", "e", "d", "-">>)
    \o <<Fld("expId", TRUE, 6, "d")>>
    \o LitSeq(DotFits)

\* r"^pfsMerged-(\d{6})\.fits.*$"
PfsMerged_filenameRegex ==
    [anchored |-> TRUE, toEnd |-> TRUE, ngroups |-> 1,
     elems |-> ReLit(<<"p", "f", "s", "M", "e", "r", "g", "e", "d", "-">>)
               \o <<Elem(DigitClass, 6, 6, 1)>>
               \o ReLit(DotFits)
               \o <<Elem(AnyChar, 0, Unbounded, 0)>>]

PfsMerged_filenameKeys == <<<<"expId", "int">>>>

\* the "%(catId)03d-%(tract)05d-%(patch)s-%(objId)016x" part shared by the
\* three object-level products
ObjectFormatPart ==
    <<Fld("catId", TRUE, 3, "d"), Lit(<<"-">>), Fld("tract", TRUE, 5, "d"), Lit(<<"-">>),
      Fld("patch", FALSE, 0, "s"), Lit(<<"-">>), Fld("objId", TRUE, 16, "x")>>

\* the r"(\d{3})-(\d{5})-(.*)-" part shared by the three object-level products
ObjectRegexPart ==
    <<Elem(DigitClass, 3, 3, 1)>> \o ReLit(<<"-">>)
    \o <<Elem(DigitClass, 5, 5, 2)>> \o ReLit(<<"-">>)
    \o <<Elem(AnyChar, 0, Unbounded, 3)>> \o ReLit(<<"-">>)

\* r"(0x.{n})" as capture group grp
ReHex(n, grp) == ReLitIn(<<"0", "x">>, grp) \o <<Elem(AnyChar, n, n, grp)>>

\* "pfsReference-%(catId)03d-%(tract)05d-%(patch)s-%(objId)016x.fits"
PfsReference_filenameFormat ==
    LitSeq(<<"p", "f", "s", "R", "e", "f", "e", "r", "e", "n", "c", "e", "-">>)
    \o ObjectFormatPart
    \o LitSeq(DotFits)

\* r"^pfsReference-(\d{3})-(\d{5})-(.*)-(0x.{8})\.fits.*$"
PfsReference_filenameRegex ==
    [anchored |-> TRUE, toEnd |-> TRUE, ngroups |-> 4,
     elems |-> ReLit(<<"p", "f", "s", "R", "e", "f", "e", "r", "e", "n", "c", "e", "-">>)
               \o ObjectRegexPart
               \o ReHex(8, 4)
               \o ReLit(DotFits)
               \o <<Elem(AnyChar, 0, Unbounded, 0)>>]

PfsReference_filenameKeys ==
    <<<<"catId", "int">>, <<"tract", "int">>, <<"patch", "str">>, <<"objId", "int">>>>

\* "pfsSingle-%(catId)03d-%(tract)05d-%(patch)s-%(objId)016x-%(expId)06d.fits"
PfsSingle_filenameFormat ==
    LitSeq(<<"p", "f", "s", "S", "i", "n", "g", "l", "e", "-">>)
    \o ObjectFormatPart
    \o <<Lit(<<"-">>), Fld("expId", TRUE, 6, "d")>>
    \o LitSeq(DotFits)

\* r"^pfsSingle-(\d{3})-(\d{5})-(.*)-(0x.{16})-(\d{6})\.fits.*$"
PfsSingle_filenameRegex ==
    [anchored |-> TRUE, toEnd |-> TRUE, ngroups |-> 5,
     elems |-> ReLit(<<"p", "f", "s", "S", "i", "n", "g", "l", "e", "-">>)
               \o ObjectRegexPart
               \o ReHex(16, 4)
               \o ReLit(<<"-">>)
               \o <<Elem(DigitClass, 6, 6, 5)>>
               \o ReLit(DotFits)
               \o <<Elem(AnyChar, 0, Unbounded, 0)>>]

PfsSingle_filenameKeys ==
    <<<<"catId", "int">>, <<"tract", "int">>, <<"patch", "str">>, <<"objId", "int">>,
      <<"expId", "int">>>>

\* "pfsObject-%(catId)03d-%(tract)05d-%(patch)s-%(objId)016x-%(numExp)03d-%(expHash)08x.fits"
PfsObject_filenameFormat ==
    LitSeq(<<"p", "f", "s", "O", "b", "j", "e", "c", "t", "-">>)
    \o ObjectFormatPart
    \o <<Lit(<<"-">>), Fld("numExp", TRUE, 3, "d"), Lit(<<"-">>), Fld("expHash", TRUE, 8, "x")>>
    \o LitSeq(DotFits)

\* r"^pfsObject-(\d{3})-(\d{5})-(.*)-(0x.{16})-(\d{3})-(0x.{8})\.fits.*$"
PfsObject_filenameRegex ==
    [anchored |-> TRUE, toEnd |-> TRUE, ngroups |-> 6,
     elems |-> ReLit(<<"p", "f", "s", "O", "b", "j", "e", "c", "t", "-">>)
               \o ObjectRegexPart
               \o ReHex(16, 4)
               \o ReLit(<<"-">>)
               \o <<Elem(DigitClass, 3, 3, 5)>>
               \o ReLit(<<"-">>)
               \o ReHex(8, 6)
               \o ReLit(DotFits)
               \o <<Elem(AnyChar, 0, Unbounded, 0)>>]

PfsObject_filenameKeys ==
    <<<<"catId", "int">>, <<"tract", "int">>, <<"patch", "str">>, <<"objId", "int">>,
      <<"numExp", "int">>, <<"expHash", "int">>>>

DrpClasses == {"PfsArm", "PfsMerged", "PfsReference", "PfsSingle", "PfsObject"}

filenameFormat(cls) ==
    CASE cls = "PfsArm" -> PfsArm_filenameFormat
      [] cls = "PfsMerged" -> PfsMerged_filenameFormat
      [] cls = "PfsReference" -> PfsReference_filenameFormat
      [] cls = "PfsSingle" -> PfsSingle_filenameFormat
      [] cls = "PfsObject" -> PfsObject_filenameFormat

filenameRegex(cls) ==
    CASE cls = "PfsArm" -> PfsArm_filenameRegex
      [] cls = "PfsMerged" -> PfsMerged_filenameRegex
      [] cls = "PfsReference" -> PfsReference_filenameRegex
      [] cls = "PfsSingle" -> PfsSingle_filenameRegex
      [] cls = "PfsObject" -> PfsObject_filenameRegex

filenameKeys(cls) ==
    CASE cls = "PfsArm" -> PfsArm_filenameKeys
      [] cls = "PfsMerged" -> PfsMerged_filenameKeys
      [] cls = "PfsReference" -> PfsReference_filenameKeys
      [] cls = "PfsSingle" -> PfsSingle_filenameKeys
      [] cls = "PfsObject" -> PfsObject_filenameKeys

\* the type of a filenameKeys entry applied to a captured group
CoerceGroup(type, group) == IF type = "int" THEN PyInt(group) ELSE Ok(group)

\* {key: type(group) for (key, type), group in zip(keys, groups)}
CoerceGroups(keys, groups) ==
    LET n == Min(Len(keys), Len(groups))
        vals == [i \in 1..n |-> CoerceGroup(keys[i][2], groups[i])]
        idx(k) == CHOOSE i \in 1..n : keys[i][1] = k
    IN IF \E i \in 1..n : ~vals[i].ok THEN Err("ValueError")
       ELSE Ok([k \in {keys[i][1] : i \in 1..n} |-> vals[idx(k)].val])

\* getFilename of a reduction product: the class's template % identity
ProductGetFilename(cls, identity) == PercentFormat(filenameFormat(cls), identity)

\* parseFilename of a reduction product: strip the directory, match the
\* basename against the class's regex, coerce the groups with filenameKeys
ProductParseFilename(cls, path) ==
    LET m == ReSearch(filenameRegex(cls), BaseName(path))
    IN IF ~m.matched THEN Err("RuntimeError")
       ELSE CoerceGroups(filenameKeys(cls), m.groups)

----------------------------------------------------------------------------
(* pfsFiberProfiles.py: CalibIdentity and the PfsFiberProfiles grammar.    *)

\* CalibIdentity.elements
CalibIdentity_elements == <<"obsDate", "spectrograph", "arm", "visit0">>

\* what a CalibIdentity instance offers: the SimpleNamespace attributes set
\* by __init__ and the members the class defines
CalibIdentity_attributes ==
    {"obsDate", "spectrograph", "arm", "visit0", "elements", "fromDict", "toDict"}

\* CalibIdentity.__init__: int() of spectrograph and visit0 given as strings
CalibIdentity_init(obsDate, spectrograph, arm, visit0) ==
    LET sp == PyInt(spectrograph)
        v0 == PyInt(visit0)
    IN IF ~sp.ok \/ ~v0.ok THEN Err("ValueError")
       ELSE Ok([obsDate |-> obsDate, spectrograph |-> sp.val, arm |-> arm,
                visit0 |-> v0.val])

\* CalibIdentity.fromDict: the elements of the mapping, handed to __init__
CalibIdentity_fromDict(d) ==
    IF \E i \in 1..Len(CalibIdentity_elements) : CalibIdentity_elements[i] \notin DOMAIN d
    THEN Err("KeyError")
    ELSE CalibIdentity_init(d.obsDate, d.spectrograph, d.arm, d.visit0)

\* CalibIdentity.toDict
CalibIdentity_toDict(identity) ==
    [k \in {CalibIdentity_elements[i] : i \in 1..Len(CalibIdentity_elements)} |-> identity[k]]

\* "pfsFiberProfiles-%(obsDate)10s-%(visit0)06d-%(arm)1s%(spectrograph)1d.fits"
PfsFiberProfiles_prefix ==
    <<"p", "f", "s", "F", "i", "b", "e", "r", "P", "r", "o", "f", "i", "l", "e", "s", "-">>

PfsFiberProfiles_filenameFormat ==
    LitSeq(PfsFiberProfiles_prefix)
    \o <<Fld("obsDate", FALSE, 10, "s"), Lit(<<"-">>), Fld("visit0", TRUE, 6, "d"), Lit(<<"-">>),
         Fld("arm", FALSE, 1, "s"), Fld("spectrograph", FALSE, 1, "d")>>
    \o LitSeq(DotFits)

\* the PfsFiberProfiles pattern, read with or without an anchor at the start
\* and with beforeFits as the class of the character that precedes "fits"
FiberProfilesPattern(anchored, beforeFits) ==
    [anchored |-> anchored, toEnd |-> FALSE, ngroups |-> 4,
     elems |-> ReLit(PfsFiberProfiles_prefix)
               \o <<Elem(NonSpace, 10, 10, 1)>>
               \o ReLit(<<"-">>)
               \o <<Elem(DigitClass, 6, 6, 2)>>
               \o ReLit(<<"-">>)
               \o <<Elem(NonSpace, 1, 1, 3), Elem(DigitClass, 1, 1, 4)>>
               \o <<Elem(beforeFits, 1, 1, 0)>>
               \o ReLit(<<"f", "i", "t", "s">>)]

\* r"pfsFiberProfiles-(?P<obsDate>\S{10})-(?P<visit0>\d{6})-(?P<arm>\S)(?P<spectrograph>\d).fits"
\* no "^", no "$", and the "." before "fits" is not escaped
PfsFiberProfiles_filenameRegex == FiberProfilesPattern(FALSE, AnyChar)

\* PfsFiberProfiles.getFilename: filenameFormat % identity.getDict()
getFilename(identity) ==
    IF "getDict" \notin CalibIdentity_attributes THEN Err("AttributeError")
    ELSE PercentFormat(PfsFiberProfiles_filenameFormat, CalibIdentity_toDict(identity))

\* PfsFiberProfiles.parseFilename
parseFilename(path) ==
    LET fileName == BaseName(path)
        matches == ReSearch(PfsFiberProfiles_filenameRegex, fileName)
    IN IF ~matches.matched THEN Err("RuntimeError")
       ELSE CalibIdentity_fromDict([obsDate |-> matches.groups[1],
                                    visit0 |-> matches.groups[2],
                                    arm |-> matches.groups[3],
                                    spectrograph |-> matches.groups[4]])

Classes == DrpClasses \cup {"PfsFiberProfiles"}

\* C.getFilename(identity) of any product class
ClassGetFilename(cls, identity) ==
    IF cls = "PfsFiberProfiles" THEN getFilename(identity)
    ELSE ProductGetFilename(cls, identity)

\* C.parseFilename(path) of any product class
ClassParseFilename(cls, path) ==
    IF cls = "PfsFiberProfiles" THEN parseFilename(path)
    ELSE ProductParseFilename(cls, path)

----------------------------------------------------------------------------
(* Inputs of the filename operations.                                      *)

ExpIds == {0, 1234, 999999}

Arms == {<<"b">>, <<"r">>, <<"n">>, <<"m">>}

Spectrographs == {1, 2}

Patches == {<<"5", ",", "7">>, <<"1", "0", ",", "2">>}

\* 0x0, 0x10, 0xbeef
ObjIds == {0, 16, 48879}

\* 0xf00d
ExpHashes == {61453}

ObsDates == {<<"2", "0", "2", "4", "-", "0", "1", "-", "0", "2">>}

Visits == {0, 42, 999999}

Identities(cls) ==
    CASE cls = "PfsArm" -> [expId : ExpIds, arm : Arms, spectrograph : Spectrographs]
      [] cls = "PfsMerged" -> [expId : ExpIds]
      [] cls = "PfsReference" -> [catId : {7}, tract : {321}, patch : Patches, objId : ObjIds]
      [] cls = "PfsSingle" -> [catId : {7}, tract : {321}, patch : Patches, objId : ObjIds,
                               expId : {1234}]
      [] cls = "PfsObject" -> [catId : {7}, tract : {321}, patch : Patches, objId : ObjIds,
                               numExp : {3}, expHash : ExpHashes]
      [] cls = "PfsFiberProfiles" -> [obsDate : ObsDates, spectrograph : Spectrographs,
                                      arm : {<<"b">>, <<"r">>}, visit0 : Visits]

\* a template with every hexadecimal field written as "0x" and w digits
\* (w = 0: the field's own width), as in the documented filenames
RECURSIVE WithHexPrefix(_, _)
WithHexPrefix(fmt, w) ==
    IF fmt = <<>> THEN <<>>
    ELSE LET item == fmt[1]
         IN (IF item.t = "fld" /\ item.conv = "x"
             THEN <<Lit(<<"0", "x">>),
                    [item EXCEPT !.width = IF w = 0 \/ item.key # "objId" THEN @ ELSE w]>>
             ELSE <<item>>) \o WithHexPrefix(Tail(fmt), w)

TemplateOf(cls) ==
    IF cls = "PfsFiberProfiles" THEN PfsFiberProfiles_filenameFormat ELSE filenameFormat(cls)

\* file names on which the parsers are tried: a rendered identity, its hex
\* fields bare or "0x"-prefixed, with or without characters before the
\* prefix, a character other than "." before "fits", a compression suffix
Stems(cls) ==
    {SubSeq(r, 1, Len(r) - Len(DotFits)) :
        r \in {PercentFormat(TemplateOf(cls), id).val : id \in Identities(cls)}
              \cup {PercentFormat(WithHexPrefix(TemplateOf(cls), w), id).val :
                        id \in Identities(cls), w \in {0, 8}}}

LeadingJunk == {<<>>, <<"X">>}

Separators == {".", "X"}

Suffixes == {<<>>, <<".", "g", "z">>}

Dirs == {<<>>, <<"d", ".", "x", "/">>}

\* "pfsArm-xxxx.fits"
Unparseable == <<"p", "f", "s", "A", "r", "m", "-", "x", "x", "x", "x", ".", "f", "i", "t", "s">>

BaseNames(cls) ==
    {pre \o stem \o <<sep>> \o <<"f", "i", "t", "s">> \o suf :
        pre \in LeadingJunk, stem \in Stems(cls), sep \in Separators, suf \in Suffixes}
    \cup {Unparseable}

PathNames(cls) == {dir \o b : dir \in Dirs, b \in BaseNames(cls)}

----------------------------------------------------------------------------
(* The filename operations as steps.                                       *)

\* an identity or a path handed to a filename operation
NameInput(kind, cls, arg) == [op |-> "input", kind |-> kind, cls |-> cls, arg |-> arg]

NameInputs ==
    {NameInput("identity", x[1], x[2]) :
        x \in UNION {{<<cls, id>> : id \in Identities(cls)} : cls \in Classes}}
    \cup {NameInput("path", x[1], x[2]) :
        x \in UNION {{<<cls, path>> : path \in PathNames(cls)} : cls \in Classes}}

NameDone(op, out) ==
    /\ nameRes' = [op |-> op, cls |-> nameRes.cls, arg |-> nameRes.arg, out |-> out]
    /\ UNCHANGED <<held, loaded, disk, wrote, last, openHandles, args>>

\* C.getFilename(id)
GetFilenameCall ==
    /\ nameRes.op = "input" /\ nameRes.kind = "identity"
    /\ NameDone("getFilename", ClassGetFilename(nameRes.cls, nameRes.arg))

\* C.parseFilename(path)
ParseFilenameCall ==
    /\ nameRes.op = "input" /\ nameRes.kind = "path"
    /\ NameDone("parseFilename", ClassParseFilename(nameRes.cls, nameRes.arg))

\* C.parseFilename(C.getFilename(id)): an exception of the inner call propagates
ParseOfGet(cls, id) ==
    LET f == ClassGetFilename(cls, id)
    IN IF f.ok THEN ClassParseFilename(cls, f.val) ELSE f

\* C.getFilename(C.parseFilename(b))
GetOfParse(cls, b) ==
    LET i == ClassParseFilename(cls, b)
    IN IF i.ok THEN ClassGetFilename(cls, i.val) ELSE i

RoundTripIdentity ==
    /\ nameRes.op = "input" /\ nameRes.kind = "identity"
    /\ NameDone("parseOfGet", ParseOfGet(nameRes.cls, nameRes.arg))

RoundTripBaseName ==
    /\ nameRes.op = "input" /\ nameRes.kind = "path"
    /\ NameDone("getOfParse", GetOfParse(nameRes.cls, nameRes.arg))

InitNames ==
    /\ nameRes \in NameInputs
    /\ held = [built |-> FALSE]
    /\ loaded = [built |-> FALSE]
    /\ disk = <<>>
    /\ wrote = <<>>
    /\ last = [op |-> "none"]
    /\ openHandles = {}
    /\ args = [given |-> FALSE]

NextNames ==
    \/ GetFilenameCall
    \/ ParseFilenameCall
    \/ RoundTripIdentity
    \/ RoundTripBaseName

\* the filename operations, each applied to an input drawn by Init
SpecNames == InitNames /\ [][NextNames]_vars

----------------------------------------------------------------------------
(* Claims about the filename grammars (checked under SpecNames).           *)

\* C7: for every CalibIdentity id, PfsFiberProfiles.getFilename(id) succeeds
\* and parseFilename(getFilename(id)) returns an identity equal to id, with
\* spectrograph and visit0 as integers.
C7_CalibIdentityRoundTrips ==
    (nameRes.op = "parseOfGet" /\ nameRes.cls = "PfsFiberProfiles")
        => nameRes.out = Ok(nameRes.arg)

\* C8: for each reduction product class and every identity within the
\* declared widths, rendering it with filenameFormat, matching the result
\* with filenameRegex and coercing the groups with filenameKeys gives back
\* the identity.
C8_DrpIdentityRoundTrips ==
    (nameRes.op = "parseOfGet" /\ nameRes.cls \in DrpClasses)
        => nameRes.out = Ok(nameRes.arg)

RegexOf(cls) ==
    IF cls = "PfsFiberProfiles" THEN PfsFiberProfiles_filenameRegex ELSE filenameRegex(cls)

\* the width a template gives the group of key (0: none); a hexadecimal
\* group carries "0x" before its digits
GroupWidth(cls, key) ==
    LET fmt == TemplateOf(cls)
        i == CHOOSE j \in 1..Len(fmt) : fmt[j].t = "fld" /\ fmt[j].key = key
    IN IF fmt[i].width = 0 THEN 0
       ELSE IF fmt[i].conv = "x" THEN fmt[i].width + 2 ELSE fmt[i].width

KeyNames(cls) ==
    IF cls = "PfsFiberProfiles" THEN <<"obsDate", "visit0", "arm", "spectrograph">>
    ELSE [i \in 1..Len(filenameKeys(cls)) |-> filenameKeys(cls)[i][1]]

GroupsAgreeWithWidths(cls, groups) ==
    \A i \in 1..Len(groups) :
        GroupWidth(cls, KeyNames(cls)[i]) \in {0, Len(groups[i])}

EndsWithFits(b) == Len(b) >= Len(DotFits) /\ SubSeq(b, Len(b) - Len(DotFits) + 1, Len(b)) = DotFits

\* C9: for every product class and every basename b its filenameRegex
\* matches, with groups of the widths of the format (and nothing after
\* ".fits"), getFilename(parseFilename(b)) = b.
C9_BaseNameRoundTrips ==
    (/\ nameRes.op = "getOfParse"
     /\ BaseName(nameRes.arg) = nameRes.arg
     /\ EndsWithFits(nameRes.arg)
     /\ ReSearch(RegexOf(nameRes.cls), nameRes.arg).matched
     /\ GroupsAgreeWithWidths(nameRes.cls, ReSearch(RegexOf(nameRes.cls), nameRes.arg).groups))
        => nameRes.out = Ok(nameRes.arg)

\* the grammar of a class matched from the first character of the basename,
\* with a literal "." before "fits" and anything after it
AnchoredGrammarMatches(cls, b) ==
    IF cls = "PfsFiberProfiles"
    THEN ReSearch(FiberProfilesPattern(TRUE, {"."}), b).matched
    ELSE ReSearch([filenameRegex(cls) EXCEPT !.anchored = TRUE], b).matched

\* C10: parseFilename strips the directory and returns an identity only when
\* the grammar matches the basename from its first character; on every other
\* basename it fails with the parse error.
C10_ParseIsAnchored ==
    nameRes.op = "parseFilename"
        => \/ AnchoredGrammarMatches(nameRes.cls, BaseName(nameRes.arg))
           \/ nameRes.out = Err("RuntimeError")

----------------------------------------------------------------------------
(* numpy: float32 narrowing and masked arrays.                             *)
(* Floating-point values are integers (oversample counts quarters, so that *)
(* int() has something to truncate).                                       *)

\* 2^24: above it a float32 holds only every second integer
TwoPow24 == 16777216

\* the float32 nearest to x, ties to the even mantissa (0 <= x < 2^25)
F32(x) ==
    IF x <= TwoPow24 \/ x % 2 = 0 THEN x
    ELSE IF (x - 1) % 4 = 0 THEN x - 1 ELSE x + 1

F32Seq(xs) == [i \in 1..Len(xs) |-> F32(xs[i])]

\* a two-dimensional numpy.ma.MaskedArray: hasMask = FALSE is numpy.ma.nomask
MaskedArray(data, hasMask, mask) == [data |-> data, hasMask |-> hasMask, mask |-> mask]

\* numpy.ma.getmaskarray: nomask reads as nothing masked
GetMaskArray(ma) ==
    IF ma.hasMask THEN ma.mask
    ELSE [j \in 1..Len(ma.data) |-> [k \in 1..Len(ma.data[j]) |-> FALSE]]

\* row j of a masked array: its data and its mask, which is the scalar
\* numpy.False_ (no length) when the array has no mask
RowOf(ma, j) ==
    [data |-> ma.data[j], scalarMask |-> ~ma.hasMask,
     mask |-> IF ma.hasMask THEN ma.mask[j] ELSE <<>>]

IsRagged(rows) == \E i, j \in 1..Len(rows) : Len(rows[i]) # Len(rows[j])

RECURSIVE SumLen(_)
SumLen(seqs) == IF seqs = <<>> THEN 0 ELSE Len(seqs[1]) + SumLen(Tail(seqs))

RECURSIVE Flatten(_)
Flatten(seqs) == IF seqs = <<>> THEN <<>> ELSE seqs[1] \o Flatten(Tail(seqs))

\* numpy.ma.masked_array(data, mask=mask) for data of M rows: a mask of
\* another shape is resized when it has one element, refused otherwise
MaskedArrayWithMask(data, mask) ==
    LET nd == SumLen(data)
        nm == SumLen(mask)
    IN IF [j \in 1..Len(mask) |-> Len(mask[j])] = [j \in 1..Len(data) |-> Len(data[j])]
       THEN Ok(MaskedArray(data, TRUE, mask))
       ELSE IF nm = 1
            THEN Ok(MaskedArray(data, TRUE,
                        [j \in 1..Len(data) |-> [k \in 1..Len(data[j]) |-> Flatten(mask)[1]]]))
            ELSE Err("MaskError")

----------------------------------------------------------------------------
(* PfsFiberProfiles: constructor and validation.                           *)

\* the width with the radius taken as it is: int(2*radius*oversample) + 1
ProfileWidth_bareRadius(rad, samp) == (rad * samp) \div 2 + 1

\* P = int(2*(radius + 1)*oversample) + 1, oversample in quarters
ProfileWidth(rad, samp) == ((rad + 1) * samp) \div 2 + 1

\* validate without its last assertion, on the length of norm
validate_normUnchecked(self) ==
    LET n == self.length
        zipRP == Min(Len(self.rows), Len(self.profiles))
        zipPRS == Min(Len(self.profiles), Min(Len(self.radius), Len(self.oversample)))
    IN IF Len(self.fiberId) # n THEN 124
       ELSE IF Len(self.radius) # n THEN 125
       ELSE IF Len(self.oversample) # n THEN 126
       ELSE IF Len(self.rows) # n THEN 127
       ELSE IF Len(self.profiles) # n THEN 128
       ELSE IF \E i \in 1..zipRP : Len(self.rows[i]) # Len(self.profiles[i].data) THEN 129
       ELSE IF \E i \in 1..zipPRS : \E j \in 1..Len(self.profiles[i].data) :
                   Len(self.profiles[i].data[j])
                       # ProfileWidth(self.radius[i], self.oversample[i]) THEN 131
       ELSE 0

\* validate without the assertion on the number of rows of each fiber
validate_rowsUnchecked(self) ==
    LET n == self.length
        zipPRS == Min(Len(self.profiles), Min(Len(self.radius), Len(self.oversample)))
    IN IF Len(self.fiberId) # n THEN 124
       ELSE IF Len(self.radius) # n THEN 125
       ELSE IF Len(self.oversample) # n THEN 126
       ELSE IF Len(self.rows) # n THEN 127
       ELSE IF Len(self.profiles) # n THEN 128
       ELSE IF \E i \in 1..zipPRS : \E j \in 1..Len(self.profiles[i].data) :
                   Len(self.profiles[i].data[j])
                       # ProfileWidth(self.radius[i], self.oversample[i]) THEN 131
       ELSE IF Len(self.norm) # n THEN 132
       ELSE 0

\* validate: the source line of the first assertion that fails, 0 if none
validate(self) ==
    LET n == self.length
        zipRP == Min(Len(self.rows), Len(self.profiles))
        zipPRS == Min(Len(self.profiles), Min(Len(self.radius), Len(self.oversample)))
    IN IF Len(self.fiberId) # n THEN 124
       ELSE IF Len(self.radius) # n THEN 125
       ELSE IF Len(self.oversample) # n THEN 126
       ELSE IF Len(self.rows) # n THEN 127
       ELSE IF Len(self.profiles) # n THEN 128
       ELSE IF \E i \in 1..zipRP : Len(self.rows[i]) # Len(self.profiles[i].data) THEN 129
       ELSE IF \E i \in 1..zipPRS : \E j \in 1..Len(self.profiles[i].data) :
                   Len(self.profiles[i].data[j])
                       # ProfileWidth(self.radius[i], self.oversample[i]) THEN 131
       ELSE IF Len(self.norm) # n THEN 132
       ELSE 0

\* an assert that fails: AssertionError without a message, raised at line
AssertionError(line) == [ok |-> FALSE, err |-> "AssertionError", line |-> line]

\* PfsFiberProfiles.__init__
PfsFiberProfiles_init(identity, fiberId, radius, oversample, rows, profiles, norm, metadata) ==
    LET self == [built |-> TRUE, identity |-> identity, fiberId |-> fiberId,
                 radius |-> radius, oversample |-> oversample, rows |-> rows,
                 profiles |-> profiles, norm |-> norm, metadata |-> metadata,
                 length |-> Len(fiberId)]
        failed == validate(self)
    IN IF failed = 0 THEN Ok(self) ELSE AssertionError(failed)

----------------------------------------------------------------------------
(* The FITS container: header codec, binary-table columns, _writeImpl and  *)
(* _readImpl.                                                              *)

LowerCase == <<"a", "b", "c", "d", "e", "f", "g", "h", "i", "j", "k", "l", "m",
               "n", "o", "p", "q", "r", "s", "t", "u", "v", "w", "x", "y", "z">>

UpperCase == <<"A", "B", "C", "D", "E", "F", "G", "H", "I", "J", "K", "L", "M",
               "N", "O", "P", "Q", "R", "S", "T", "U", "V", "W", "X", "Y", "Z">>

Upper(c) ==
    IF \E i \in 1..Len(LowerCase) : LowerCase[i] = c
    THEN UpperCase[CHOOSE i \in 1..Len(LowerCase) : LowerCase[i] = c]
    ELSE c

UpperKey(key) == [i \in 1..Len(key) |-> Upper(key[i])]

\* a header or a metadata dict: a set of <<keyword, value>> with one value
\* per keyword
Keywords(cards) == {c[1] : c \in cards}

\* header[key] = value
SetCard(cards, key, value) == {c \in cards : c[1] # key} \cup {<<key, value>>}

\* astropyHeaderFromDict: keywords are uppercased on emit
astropyHeaderFromDict(metadata) == {<<UpperKey(c[1]), c[2]>> : c \in metadata}

\* astropyHeaderToDict: every keyword of the header is kept
astropyHeaderToDict(header) == header

OBSTYPE == <<"O", "B", "S", "T", "Y", "P", "E">>

\* astropy.io.fits.PrimaryHDU(header=header): the header of a primary HDU
\* without data carries the structural cards SIMPLE, BITPIX, NAXIS, EXTEND
StructuralCards ==
    {<<<<"S", "I", "M", "P", "L", "E">>, "T">>, <<<<"B", "I", "T", "P", "I", "X">>, "8">>,
     <<<<"N", "A", "X", "I", "S">>, "0">>, <<<<"E", "X", "T", "E", "N", "D">>, "T">>}

PrimaryHDU(header) ==
    {c \in header : c[1] \notin Keywords(StructuralCards)} \cup StructuralCards

\* what a variable-length column stores for one entry of its input list: a
\* sequence is stored as it is; a scalar (numpy.False_, which has no len())
\* is refused or stored as one element, depending on the astropy at hand
ScalarEntryBehaviours == {"TypeError", "oneElement"}

StoreMaskEntry(row) == IF row.scalarMask THEN <<FALSE>> ELSE row.mask

\* the rows of the profiles of all fibers, in fiber order
RECURSIVE ProfileRows(_)
ProfileRows(profiles) ==
    IF profiles = <<>> THEN <<>>
    ELSE [j \in 1..Len(profiles[1].data) |-> RowOf(profiles[1], j)]
         \o ProfileRows(Tail(profiles))

\* the fiberId column when start is never advanced: every fiber is stored
\* from row 0 on, over the fibers before it, and the rest stays 0
RepeatPerRow_startNotAdvanced(fiberId, rows) ==
    LET n == Min(Len(fiberId), Len(rows))
    IN [k \in 1..SumLen(rows) |->
           LET over == {i \in 1..n : Len(rows[i]) >= k}
           IN IF over = {} THEN 0
              ELSE fiberId[CHOOSE i \in over : \A i2 \in over : i2 <= i]]

\* fiberId[start:start + num] = self.fiberId[ii], num = len(self.rows[ii])
RECURSIVE RepeatPerRow(_, _)
RepeatPerRow(fiberId, rows) ==
    IF rows = <<>> \/ fiberId = <<>> THEN <<>>
    ELSE [j \in 1..Len(rows[1]) |-> fiberId[1]] \o RepeatPerRow(Tail(fiberId), Tail(rows))

\* PfsFiberProfiles._writeImpl: the HDUList, or the exception of a column
\* that cannot be built
writeImpl(self, scalarEntry) ==
    LET header == SetCard(astropyHeaderFromDict(self.metadata), OBSTYPE, "fiberProfiles")
        fibersHdu == [fiberId |-> self.fiberId,
                      radius |-> self.radius,
                      oversample |-> F32Seq(self.oversample),
                      norm |-> [i \in 1..Len(self.norm) |-> F32Seq(self.norm[i])],
                      INHERIT |-> TRUE]
        prows == ProfileRows(self.profiles)
        profilesHdu == [fiberId |-> RepeatPerRow(self.fiberId, self.rows),
                        rows |-> F32Seq(Flatten(self.rows)),
                        profiles |-> [k \in 1..Len(prows) |-> F32Seq(prows[k].data)],
                        masks |-> [k \in 1..Len(prows) |-> StoreMaskEntry(prows[k])],
                        INHERIT |-> TRUE]
    IN IF scalarEntry = "TypeError" /\ \E k \in 1..Len(prows) : prows[k].scalarMask
       THEN Err("TypeError")
       ELSE Ok([exists |-> TRUE, header |-> PrimaryHDU(header),
                FIBERS |-> fibersHdu, PROFILES |-> profilesHdu])

RECURSIVE Select(_, _)
Select(col, flags) ==
    IF col = <<>> THEN <<>>
    ELSE (IF flags[1] THEN <<col[1]>> ELSE <<>>) \o Select(Tail(col), Tail(flags))

\* the masked profiles of one fiber from the selected rows of PROFILES
FiberProfile(profiles, masks) ==
    IF IsRagged(profiles) THEN Err("ValueError")
    ELSE IF Len(masks) > 0
         THEN IF IsRagged(masks) THEN Err("ValueError")
              ELSE MaskedArrayWithMask(profiles, masks)
         ELSE Ok(MaskedArray(profiles, TRUE, <<>>))

\* PfsFiberProfiles._readImpl
readImpl(fits, identity) ==
    LET metadata == astropyHeaderToDict(fits.header)
        fiberId1 == fits.FIBERS.fiberId
        radius == fits.FIBERS.radius
        oversample == fits.FIBERS.oversample
        norm == fits.FIBERS.norm
        fiberId2 == fits.PROFILES.fiberId
        rows == fits.PROFILES.rows
        profiles == fits.PROFILES.profiles
        masks == fits.PROFILES.masks
        numFibers == Len(fiberId1)
        select(ii) == [k \in 1..Len(fiberId2) |-> fiberId2[k] = fiberId1[ii]]
        fiberRows == [ii \in 1..numFibers |-> Select(rows, select(ii))]
        made == [ii \in 1..numFibers |->
                    FiberProfile(Select(profiles, select(ii)), Select(masks, select(ii)))]
        bad == {ii \in 1..numFibers : ~made[ii].ok}
    IN IF "FIBERS" \notin DOMAIN fits \/ "PROFILES" \notin DOMAIN fits THEN Err("KeyError")
       ELSE IF bad # {} THEN made[CHOOSE ii \in bad : \A i2 \in bad : ii <= i2]
       ELSE PfsFiberProfiles_init(identity, fiberId1, radius, oversample, fiberRows,
                                  [ii \in 1..numFibers |-> made[ii].val], norm, metadata)

NoFile == [exists |-> FALSE]

NoObject == [built |-> FALSE]

\* astropy.io.fits.open(filename)
FitsOpen(fs, filename) ==
    IF filename \in DOMAIN fs /\ fs[filename].exists THEN Ok(fs[filename])
    ELSE Err("FileNotFoundError")

\* PfsFiberProfiles.readFits
readFits(fs, filename) ==
    LET identity == parseFilename(filename)
        fits == FitsOpen(fs, filename)
    IN IF ~identity.ok THEN identity
       ELSE IF ~fits.ok THEN fits
       ELSE readImpl(fits.val, identity.val)

\* the canonical file name of a CalibIdentity
CanonicalName(identity) ==
    PercentFormat(PfsFiberProfiles_filenameFormat, CalibIdentity_toDict(identity)).val

\* read that renders the file name itself, filenameFormat % identity.toDict(),
\* in place of calling getFilename
read_nameFromFormat(fs, identity, dirName) ==
    LET fits == FitsOpen(fs, PathJoin(dirName, CanonicalName(identity)))
    IN IF ~fits.ok THEN fits
       ELSE readImpl(fits.val, identity)

\* PfsFiberProfiles.read
read(fs, identity, dirName) ==
    LET name == getFilename(identity)
        fits == FitsOpen(fs, PathJoin(dirName, name.val))
    IN IF ~name.ok THEN name
       ELSE IF ~fits.ok THEN fits
       ELSE readImpl(fits.val, identity)

\* HDUList.writeto(filename, overwrite=overwrite): the file system after it;
\* an existing file is replaced as a whole, or refused without overwrite
writeto(fs, filename, hdulist, overwrite) ==
    IF fs[filename].exists /\ ~overwrite THEN Err("OSError")
    ELSE Ok([fs EXCEPT ![filename] = hdulist])

\* PfsFiberProfiles.writeFits: the file system after it, or the exception
writeFits(fs, self, filename, scalarEntry) ==
    LET fits == writeImpl(self, scalarEntry)
    IN IF ~fits.ok THEN fits
       ELSE writeto(fs, filename, fits.val, TRUE)

\* PfsFiberProfiles.write: the file system after it, or the exception
write(fs, self, dirName, scalarEntry) ==
    LET name == getFilename(self.identity)
    IN IF ~name.ok THEN name
       ELSE writeFits(fs, self, PathJoin(dirName, name.val), scalarEntry)

\* entering "with astropy.io.fits.open(filename) as fits": the handle is open
ContextEnter(handles, h) == handles \cup {h}

\* a with statement that releases its handle only when the body returns
ContextExit_onReturnOnly(handles, h, out) == IF out.ok THEN handles \ {h} ELSE handles

\* leaving the with statement, by return or by exception: the handle is closed
ContextExit(handles, h, out) == handles \ {h}

\* readFits opens the file once the name is parsed and the file is there
readFitsOpens(fs, filename) == parseFilename(filename).ok /\ FitsOpen(fs, filename).ok

\* the open handles after readFits
readFitsHandles(fs, filename, handles) ==
    IF readFitsOpens(fs, filename)
    THEN ContextExit(ContextEnter(handles, filename), filename, readFits(fs, filename))
    ELSE handles

\* read opens the file once the name is rendered and the file is there
readOpens(fs, identity, dirName) ==
    /\ getFilename(identity).ok
    /\ FitsOpen(fs, PathJoin(dirName, getFilename(identity).val)).ok

\* the open handles after read
readHandles(fs, identity, dirName, handles) ==
    IF readOpens(fs, identity, dirName)
    THEN LET filename == PathJoin(dirName, getFilename(identity).val)
         IN ContextExit(ContextEnter(handles, filename), filename, read(fs, identity, dirName))
    ELSE handles

\* writeFits opens the file once the HDUList is built; writeto closes the
\* file it opened
writeFitsOpens(self, scalarEntry) == writeImpl(self, scalarEntry).ok

\* the open handles after writeFits
writeFitsHandles(self, filename, scalarEntry, handles) ==
    IF writeFitsOpens(self, scalarEntry)
    THEN ContextEnter(handles, filename) \ {filename}
    ELSE handles

\* write opens the file once the name is rendered and the HDUList is built
writeOpens(self, scalarEntry) == getFilename(self.identity).ok /\ writeFitsOpens(self, scalarEntry)

\* the open handles after write
writeHandles(self, dirName, scalarEntry, handles) ==
    IF writeOpens(self, scalarEntry)
    THEN writeFitsHandles(self, PathJoin(dirName, getFilename(self.identity).val),
                          scalarEntry, handles)
    ELSE handles

----------------------------------------------------------------------------
(* Inputs of the constructor and of the readers.                           *)

MaxFibers == 2

MaxProfiles == 1

\* every sequence over S of length 0..n
SeqsUpTo(n, S) == UNION {[1..m -> S] : m \in 0..n}

FiberIds == {10, 20}

Radii == {0, 1}

\* 0.75 and 3.0, in quarters
Oversamples == {3}

\* the widths int(2*(radius + 1)*oversample) + 1 of the radii above
Widths == {ProfileWidth(r, o) : r \in Radii, o \in Oversamples}

IdA == [obsDate |-> <<"2", "0", "2", "4", "-", "0", "1", "-", "0", "2">>,
        spectrograph |-> 1, arm |-> <<"b">>, visit0 |-> 42]

IdB == [obsDate |-> <<"2", "0", "2", "4", "-", "0", "1", "-", "0", "2">>,
        spectrograph |-> 2, arm |-> <<"r">>, visit0 |-> 42]

CtorArgs(identity, fiberId, radius, oversample, rows, profiles, norm, metadata) ==
    [given |-> TRUE, identity |-> identity, fiberId |-> fiberId, radius |-> radius,
     oversample |-> oversample, rows |-> rows, profiles |-> profiles, norm |-> norm,
     metadata |-> metadata]

Constant(m, w, v) == [j \in 1..m |-> [k \in 1..w |-> v]]

\* row positions 100, 200, ...
RowVectors == {[j \in 1..m |-> 100 * j] : m \in 0..MaxProfiles}

\* unmasked profiles of every height and width
ShapeProfiles ==
    {MaskedArray(Constant(m, w, 0), FALSE, <<>>) : m \in 0..MaxProfiles, w \in Widths}

\* arguments of every combination of lengths: the six sequences vary
\* independently, as do the number of row positions and of profile rows of
\* each fiber and the width of the profile rows
ShapeArgs ==
    {CtorArgs(IdA, x[1], x[2], x[3], x[4], x[5], x[6], {}) :
        x \in SeqsUpTo(MaxFibers, FiberIds) \X SeqsUpTo(MaxFibers, Radii)
              \X SeqsUpTo(MaxFibers, Oversamples) \X SeqsUpTo(MaxFibers, RowVectors)
              \X SeqsUpTo(MaxFibers, ShapeProfiles) \X SeqsUpTo(MaxFibers, {<<>>})}

\* radius 1 and oversample 3.0 (12 quarters) ask for rows of 13 values
ExampleArgs ==
    {CtorArgs(IdA, <<10>>, <<1>>, <<12>>, <<<<100>>>>,
              <<MaskedArray(Constant(1, w, 0), FALSE, <<>>)>>, <<<<>>>>, {}) : w \in {12, 13}}

\* one fiber of a product: geometry, row positions, masked profiles, norm
Fiber(radius, oversample, rows, profiles, norm) ==
    [radius |-> radius, oversample |-> oversample, rows |-> rows,
     profiles |-> profiles, norm |-> norm]

\* 16777217 is no float32: it is stored as 16777216
FiberSamples ==
    {Fiber(0, 3, <<100>>, MaskedArray(<<<<1, 2>>>>, FALSE, <<>>), <<>>),
     Fiber(0, 3, <<100, 200>>, MaskedArray(<<<<1, 2>>, <<3, 4>>>>, FALSE, <<>>), <<5>>),
     Fiber(0, 3, <<100, 200>>,
           MaskedArray(<<<<1, 2>>, <<3, 4>>>>, TRUE, <<<<FALSE, FALSE>>, <<TRUE, FALSE>>>>),
           <<>>),
     Fiber(0, 3, <<>>, MaskedArray(<<>>, FALSE, <<>>), <<>>),
     Fiber(1, 3, <<100>>,
           MaskedArray(<<<<1, 2, 3, 4>>>>, TRUE, <<<<FALSE, FALSE, FALSE, FALSE>>>>), <<5, 6>>),
     Fiber(0, 3, <<16777217>>, MaskedArray(<<<<1, 2>>>>, TRUE, <<<<FALSE, TRUE>>>>), <<>>)}

\* header keywords of a product: none, a lower-case keyword, OBSTYPE itself
MetadataSamples ==
    {{<<<<"v", "i", "s", "i", "t">>, "7">>},
     {<<OBSTYPE, "fiberProfiles">>},
     {<<OBSTYPE, "other">>, <<<<"V", "I", "S", "I", "T">>, "7">>}}

\* one fiber with two masked rows, under each of the metadata samples
MetadataArgs ==
    {CtorArgs(IdA, <<10>>, <<0>>, <<3>>, <<<<100, 200>>>>,
              <<MaskedArray(<<<<1, 2>>, <<3, 4>>>>, TRUE,
                            <<<<FALSE, FALSE>>, <<TRUE, FALSE>>>>)>>,
              <<<<>>>>, metadata) : metadata \in MetadataSamples}

\* a product without fibers
EmptyArgs == CtorArgs(IdA, <<>>, <<>>, <<>>, <<>>, <<>>, <<>>, {})

\* shape-valid arguments with the values that matter to the file format; the
\* second identity with at most one fiber
ValueArgs ==
    MetadataArgs \cup
    {CtorArgs(x[1], x[2], [i \in 1..Len(x[2]) |-> x[3][i].radius],
              [i \in 1..Len(x[2]) |-> x[3][i].oversample],
              [i \in 1..Len(x[2]) |-> x[3][i].rows],
              [i \in 1..Len(x[2]) |-> x[3][i].profiles],
              [i \in 1..Len(x[2]) |-> x[3][i].norm], {}) :
        x \in {y \in {IdA, IdB} \X SeqsUpTo(MaxFibers, FiberIds)
                        \X [1..MaxFibers -> FiberSamples] :
                   y[1] = IdA \/ Len(y[2]) <= 1}}

PathA == CanonicalName(IdA)

PathB == CanonicalName(IdB)

\* os.path.join("", name) is name
IODirs == {<<>>}

\* the paths writeFits and readFits are given
FitsPaths == {PathA}

\* a name parseFilename refuses
BadPath == <<"x", ".", "f", "i", "t", "s">>

\* the paths readFits is given
ReadPaths == FitsPaths \cup {BadPath}

Paths == ReadPaths \cup {PathJoin(d, CanonicalName(id)) : d \in IODirs, id \in {IdA, IdB}}

EmptyDisk == [path \in Paths |-> NoFile]

\* FITS files as any writer may have left them: FIBERS and PROFILES tables of
\* any number of rows, PROFILES rows of any fiber, width and mask length
TableRows(n, S) == SeqsUpTo(n, S)

FiberRowInputs == [fiberId : FiberIds, radius : Radii, oversample : Oversamples]

ProfileRowInputs ==
    [fiberId : FiberIds, width : Widths, mask : {"empty", "one", "full"}]

MaxTableRows == 2

FileOf(frows, prows) ==
    [exists |-> TRUE, header |-> {<<OBSTYPE, "fiberProfiles">>},
     FIBERS |-> [fiberId |-> [i \in 1..Len(frows) |-> frows[i].fiberId],
                 radius |-> [i \in 1..Len(frows) |-> frows[i].radius],
                 oversample |-> [i \in 1..Len(frows) |-> frows[i].oversample],
                 norm |-> [i \in 1..Len(frows) |-> <<>>],
                 INHERIT |-> TRUE],
     PROFILES |-> [fiberId |-> [k \in 1..Len(prows) |-> prows[k].fiberId],
                   rows |-> [k \in 1..Len(prows) |-> 100 * k],
                   profiles |-> [k \in 1..Len(prows) |-> [j \in 1..prows[k].width |-> 0]],
                   masks |-> [k \in 1..Len(prows) |->
                                 CASE prows[k].mask = "empty" -> <<>>
                                   [] prows[k].mask = "one" -> <<FALSE>>
                                   [] prows[k].mask = "full" ->
                                          [j \in 1..prows[k].width |-> FALSE]],
                   INHERIT |-> TRUE]]

FileInputs ==
    {FileOf(frows, prows) : frows \in TableRows(MaxFibers, FiberRowInputs),
                            prows \in TableRows(MaxTableRows, ProfileRowInputs)}

----------------------------------------------------------------------------
(* The constructor, the readers and the writers as steps.                  *)

\* PfsFiberProfiles(identity, fiberId, radius, oversample, rows, profiles, norm, metadata)
Constructed(a) ==
    PfsFiberProfiles_init(a.identity, a.fiberId, a.radius, a.oversample, a.rows,
                          a.profiles, a.norm, a.metadata)

Construct ==
    /\ args.given
    /\ ~held.built
    /\ LET out == Constructed(args)
       IN /\ held' = IF out.ok THEN out.val ELSE NoObject
          /\ last' = [op |-> "construct", out |-> out]
    /\ UNCHANGED <<nameRes, loaded, disk, wrote, openHandles, args>>

\* held.writeFits(path)
WriteFits(path) ==
    /\ held.built
    /\ \E scalarEntry \in ScalarEntryBehaviours :
          LET out == writeFits(disk, held, path, scalarEntry)
          IN /\ disk' = IF out.ok THEN out.val ELSE disk
             /\ wrote' = IF out.ok THEN [wrote EXCEPT ![path] = held] ELSE wrote
             /\ openHandles' = writeFitsHandles(held, path, scalarEntry, openHandles)
             /\ last' = [op |-> "writeFits", path |-> path,
                         out |-> IF out.ok THEN Ok("None") ELSE out,
                         opened |-> writeFitsOpens(held, scalarEntry)]
    /\ UNCHANGED <<nameRes, held, loaded, args>>

\* held.write(dirName)
Write(dirName) ==
    /\ held.built
    /\ \E scalarEntry \in ScalarEntryBehaviours :
          LET out == write(disk, held, dirName, scalarEntry)
              path == PathJoin(dirName, getFilename(held.identity).val)
          IN /\ disk' = IF out.ok THEN out.val ELSE disk
             /\ wrote' = IF out.ok THEN [wrote EXCEPT ![path] = held] ELSE wrote
             /\ openHandles' = writeHandles(held, dirName, scalarEntry, openHandles)
             /\ last' = [op |-> "write", dirName |-> dirName,
                         out |-> IF out.ok THEN Ok("None") ELSE out,
                         opened |-> writeOpens(held, scalarEntry)]
    /\ UNCHANGED <<nameRes, held, loaded, args>>

\* PfsFiberProfiles.readFits(path)
ReadFits(path) ==
    /\ LET out == readFits(disk, path)
       IN /\ loaded' = IF out.ok THEN out.val ELSE loaded
          /\ openHandles' = readFitsHandles(disk, path, openHandles)
          /\ last' = [op |-> "readFits", path |-> path, out |-> out,
                      opened |-> readFitsOpens(disk, path)]
    /\ UNCHANGED <<nameRes, held, disk, wrote, args>>

\* PfsFiberProfiles.read(identity, dirName)
Read(identity, dirName) ==
    /\ LET out == read(disk, identity, dirName)
       IN /\ loaded' = IF out.ok THEN out.val ELSE loaded
          /\ openHandles' = readHandles(disk, identity, dirName, openHandles)
          /\ last' = [op |-> "read", identity |-> identity, dirName |-> dirName, out |-> out,
                      opened |-> readOpens(disk, identity, dirName)]
    /\ UNCHANGED <<nameRes, held, disk, wrote, args>>

\* construction and loading: arguments of every shape, or a file of every
\* shape on the disk
InitCtor ==
    /\ nameRes = [op |-> "none"]
    /\ held = NoObject
    /\ loaded = NoObject
    /\ \/ args \in ShapeArgs \cup ExampleArgs /\ disk = EmptyDisk
       \/ args = [given |-> FALSE] /\ disk \in {[EmptyDisk EXCEPT ![PathA] = f] : f \in FileInputs}
    /\ wrote = [path \in Paths |-> NoObject]
    /\ last = [op |-> "none"]
    /\ openHandles = {}

NextCtor ==
    \/ Construct
    \/ \E path \in {p \in FitsPaths : disk[p].exists} : ReadFits(path)

SpecCtor == InitCtor /\ [][NextCtor]_vars

\* fiber 10 with radius 0 and oversample 0.75: rows of 2 values
OneFiber == <<[fiberId |-> 10, radius |-> 0, oversample |-> 3]>>

ProfileRowOf(width, mask) == [fiberId |-> 10, width |-> width, mask |-> mask]

\* files that did not come from writeFits: without the two extensions, with a
\* row of 4 values, with empty masks entries, with a full and an empty masks
\* entry in one fiber, and with full masks entries
ForeignFiles ==
    {[exists |-> TRUE, header |-> StructuralCards],
     FileOf(OneFiber, <<ProfileRowOf(4, "full")>>),
     FileOf(OneFiber, <<ProfileRowOf(2, "empty")>>),
     FileOf(OneFiber, <<ProfileRowOf(2, "empty"), ProfileRowOf(2, "empty")>>),
     FileOf(OneFiber, <<ProfileRowOf(2, "full"), ProfileRowOf(2, "empty")>>),
     FileOf(OneFiber, <<ProfileRowOf(2, "full"), ProfileRowOf(2, "full")>>)}

\* a product written to PathA before: two fibers, three rows, a keyword
EarlierProduct ==
    Constructed(
        CtorArgs(IdA, <<20, 10>>, <<0, 0>>, <<3, 3>>, <<<<300>>, <<400, 500>>>>,
                 <<MaskedArray(<<<<7, 7>>>>, TRUE, <<<<TRUE, TRUE>>>>),
                   MaskedArray(<<<<8, 8>>, <<9, 9>>>>, TRUE,
                               <<<<TRUE, TRUE>>, <<TRUE, TRUE>>>>)>>,
                 <<<<1>>, <<2>>>>, {<<<<"E", "A", "R", "L", "Y">>, "1">>})).val

EarlierFile == writeImpl(EarlierProduct, "oneElement").val

\* a product is built, written and read back; the disk is empty, or it holds
\* at PathA a file of another origin or the file of an earlier product
Init ==
    /\ nameRes = [op |-> "none"]
    /\ held = NoObject
    /\ loaded = NoObject
    /\ \/ /\ args \in ValueArgs
          /\ disk = EmptyDisk
          /\ wrote = [path \in Paths |-> NoObject]
       \/ /\ args \in MetadataArgs
          /\ disk \in {[EmptyDisk EXCEPT ![PathA] = f] : f \in ForeignFiles}
          /\ wrote = [path \in Paths |-> NoObject]
       \/ /\ args \in MetadataArgs \cup {EmptyArgs}
          /\ disk = [EmptyDisk EXCEPT ![PathA] = EarlierFile]
          /\ wrote = [[path \in Paths |-> NoObject] EXCEPT ![PathA] = EarlierProduct]
    /\ last = [op |-> "none"]
    /\ openHandles = {}

Next ==
    \/ Construct
    \/ \E path \in FitsPaths : WriteFits(path)
    \/ \E dirName \in IODirs : Write(dirName)
    \/ \E path \in ReadPaths : ReadFits(path)
    \/ \E identity \in {IdA, IdB} : \E dirName \in IODirs : Read(identity, dirName)

Spec == Init /\ [][Next]_vars

----------------------------------------------------------------------------
(* Statements about the constructor, validation and the file round trip.   *)

\* the six parallel sequences of arguments or of a product have one length
SameLength(p) ==
    /\ Len(p.radius) = Len(p.fiberId)
    /\ Len(p.oversample) = Len(p.fiberId)
    /\ Len(p.rows) = Len(p.fiberId)
    /\ Len(p.profiles) = Len(p.fiberId)
    /\ Len(p.norm) = Len(p.fiberId)

\* every fiber has as many row positions as profile rows
RowCountsAgree(p) ==
    \A i \in 1..Min(Len(p.rows), Len(p.profiles)) :
        Len(p.rows[i]) = Len(p.profiles[i].data)

\* int(2*(radius + 1)*oversample) + 1 with the oversample in quarters
StatedWidth(rad, samp) == (2 * (rad + 1) * samp) \div 4 + 1

\* every profile row has the width its fiber's radius and oversample ask for
WidthsAgree(p) ==
    \A i \in 1..Min(Len(p.profiles), Min(Len(p.radius), Len(p.oversample))) :
        \A j \in 1..Len(p.profiles[i].data) :
            Len(p.profiles[i].data[j]) = StatedWidth(p.radius[i], p.oversample[i])

UniqueFiberId(p) ==
    \A i, j \in 1..Len(p.fiberId) : p.fiberId[i] = p.fiberId[j] => i = j

\* q has the identity and, element by element, the arrays of p
SameProduct(q, p) ==
    /\ q.identity = p.identity
    /\ q.fiberId = p.fiberId
    /\ q.radius = p.radius
    /\ q.oversample = p.oversample
    /\ q.rows = p.rows
    /\ q.norm = p.norm
    /\ Len(q.profiles) = Len(p.profiles)
    /\ \A i \in 1..Len(p.profiles) :
          /\ q.profiles[i].data = p.profiles[i].data
          /\ GetMaskArray(q.profiles[i]) = GetMaskArray(p.profiles[i])

\* the product last written to the file that read(identity, dirName) opens
WrittenFor(identity, dirName) == wrote[PathJoin(dirName, CanonicalName(identity))]

\* C1: a product with unique fiberId is written by writeFits and by write, and
\* reading the file back (readFits of the file written under the product's
\* canonical name, read of the product's identity) returns a product with the
\* same identity and element-wise equal fiberId, radius, oversample, rows,
\* profile data, profile masks and norm.
C1_WriteReadRoundTrips ==
    /\ (last.op \in {"writeFits", "write"} /\ UniqueFiberId(held)) => last.out.ok
    /\ ( /\ last.op = "readFits"
         /\ wrote[last.path].built
         /\ UniqueFiberId(wrote[last.path])
         /\ last.path = CanonicalName(wrote[last.path].identity) )
       => (last.out.ok /\ SameProduct(last.out.val, wrote[last.path]))
    /\ ( /\ last.op = "read"
         /\ WrittenFor(last.identity, last.dirName).built
         /\ UniqueFiberId(WrittenFor(last.identity, last.dirName))
         /\ WrittenFor(last.identity, last.dirName).identity = last.identity )
       => ( /\ last.out.ok
            /\ SameProduct(last.out.val, WrittenFor(last.identity, last.dirName)) )

\* C2: constructing with a fiberId that holds an identifier twice, all shapes
\* valid, fails and yields no object; every constructed or loaded product has
\* pairwise distinct fiberId entries.
C2_DuplicateFiberIdRejected ==
    /\ ( /\ last.op = "construct"
         /\ SameLength(args) /\ RowCountsAgree(args) /\ WidthsAgree(args)
         /\ ~UniqueFiberId(args) )
       => (~last.out.ok /\ ~held.built)
    /\ held.built => UniqueFiberId(held)
    /\ loaded.built => UniqueFiberId(loaded)

\* C3: every product the constructor or a reader returned has fiberId, radius,
\* oversample, rows, profiles and norm of the one length len(p); constructing
\* with six sequences that are not all of one length fails in validation and
\* yields no object.
C3_ParallelArraysSameLength ==
    /\ held.built => (SameLength(held) /\ held.length = Len(held.fiberId))
    /\ loaded.built => (SameLength(loaded) /\ loaded.length = Len(loaded.fiberId))
    /\ (last.op = "readFits" /\ last.out.ok) => SameLength(last.out.val)
    /\ (last.op = "construct" /\ ~SameLength(args))
       => (~last.out.ok /\ last.out.err = "AssertionError" /\ ~held.built)
    /\ (last.op = "construct" /\ last.out.ok) => held = last.out.val

\* two fibers, every sequence of length 2 but norm: the constructor refused them
C3_NormTooShortRefused ==
    /\ last.op = "construct"
    /\ Len(args.fiberId) = 2 /\ Len(args.radius) = 2 /\ Len(args.oversample) = 2
    /\ Len(args.rows) = 2 /\ Len(args.profiles) = 2 /\ Len(args.norm) = 1
    /\ RowCountsAgree(args) /\ WidthsAgree(args)
    /\ ~last.out.ok
    /\ ~held.built

\* C4: in every product the constructor or a reader returned each profile row
\* of fiber i has int(2*(radius[i] + 1)*oversample[i]) + 1 values; constructing
\* with a profile row of another length (radius 1, oversample 3, a row of 12
\* values) fails with the error of a shape check.
C4_ProfileRowsHaveStatedWidth ==
    /\ held.built => WidthsAgree(held)
    /\ loaded.built => WidthsAgree(loaded)
    /\ (last.op = "readFits" /\ last.out.ok) => WidthsAgree(last.out.val)
    /\ (last.op = "construct" /\ ~WidthsAgree(args))
       => (~last.out.ok /\ last.out.err = "AssertionError" /\ ~held.built)

\* radius 1, oversample 3.0 and a row of 12 values: refused by the width check
C4_TwelveWideRowRefused ==
    /\ last.op = "construct"
    /\ args.radius = <<1>> /\ args.oversample = <<12>>
    /\ Len(args.profiles[1].data[1]) = 12
    /\ StatedWidth(1, 12) = 13
    /\ ~last.out.ok
    /\ last.out.line = 131
    /\ ~held.built

\* C5: in every product the constructor or a reader returned each fiber has as
\* many row positions as profile rows; constructing with a fiber for which
\* the two differ fails in validation, also when the fiber has no row position
\* but a profile row, or a row position but no profile row.
C5_RowCountsAgree ==
    /\ held.built => RowCountsAgree(held)
    /\ loaded.built => RowCountsAgree(loaded)
    /\ (last.op = "readFits" /\ last.out.ok) => RowCountsAgree(last.out.val)
    /\ (last.op = "construct" /\ ~RowCountsAgree(args))
       => (~last.out.ok /\ last.out.err = "AssertionError" /\ ~held.built)

\* one fiber without a row position but with a profile row, another with a row
\* position but without a profile row: refused by the row-count check
C5_ZeroRowsRefused ==
    /\ last.op = "construct"
    /\ SameLength(args)
    /\ Len(args.fiberId) = 2
    /\ Len(args.rows[1]) = 0 /\ Len(args.profiles[1].data) = 1
    /\ Len(args.rows[2]) = 1 /\ Len(args.profiles[2].data) = 0
    /\ ~last.out.ok
    /\ last.out.line = 129
    /\ ~held.built

\* the kind of failure a caller of the constructor sees
FailureKind(out) == IF out.ok THEN "none" ELSE out.err

NoProfile == MaskedArray(<<>>, FALSE, <<>>)

\* one fiber, no radius
LengthMismatchArgs == CtorArgs(IdA, <<10>>, <<>>, <<3>>, <<<<>>>>, <<NoProfile>>, <<<<>>>>, {})

\* radius 1, oversample 3.0, a row of 12 values
WidthMismatchArgs ==
    CtorArgs(IdA, <<10>>, <<1>>, <<12>>, <<<<100>>>>,
             <<MaskedArray(Constant(1, 12, 0), FALSE, <<>>)>>, <<<<>>>>, {})

\* fiber 10 twice
DuplicateArgs ==
    CtorArgs(IdA, <<10, 10>>, <<0, 0>>, <<3, 3>>, <<<<>>, <<>>>>,
             <<NoProfile, NoProfile>>, <<<<>>, <<>>>>, {})

\* C6: validation reports three distinguishable kinds of failure: a length
\* mismatch among the parallel arrays, a profile-width mismatch and a duplicate
\* fiberId each end in an error that differs from that of the other two.
C6_FailureKindsDiffer ==
    last.op = "construct" =>
        /\ (~SameLength(args) /\ UniqueFiberId(args))
           => FailureKind(last.out) \notin {"none", FailureKind(Constructed(WidthMismatchArgs)),
                                            FailureKind(Constructed(DuplicateArgs))}
        /\ (SameLength(args) /\ RowCountsAgree(args) /\ ~WidthsAgree(args) /\ UniqueFiberId(args))
           => FailureKind(last.out) \notin {"none", FailureKind(Constructed(LengthMismatchArgs)),
                                            FailureKind(Constructed(DuplicateArgs))}
        /\ (SameLength(args) /\ RowCountsAgree(args) /\ WidthsAgree(args) /\ ~UniqueFiberId(args))
           => FailureKind(last.out) \notin {"none", FailureKind(Constructed(LengthMismatchArgs)),
                                            FailureKind(Constructed(WidthMismatchArgs))}

----------------------------------------------------------------------------
(* Statements about the header, the readers, file handles and the tables.  *)

\* two sets of <<keyword, value>> with the same keywords, compared without
\* regard to case, and the same values
SameModuloCase(m1, m2) ==
    {<<UpperKey(c[1]), c[2]>> : c \in m1} = {<<UpperKey(c[1]), c[2]>> : c \in m2}

\* C11: the metadata of the product read back from the file written for a
\* valid product p is set-equal to p.metadata modulo keyword case: the same
\* keywords with the same values, none added and none removed.
C11_MetadataRoundTrips ==
    /\ ( /\ last.op = "readFits"
         /\ wrote[last.path].built
         /\ UniqueFiberId(wrote[last.path])
         /\ last.out.ok )
       => SameModuloCase(last.out.val.metadata, wrote[last.path].metadata)
    /\ ( /\ last.op = "read"
         /\ WrittenFor(last.identity, last.dirName).built
         /\ UniqueFiberId(WrittenFor(last.identity, last.dirName))
         /\ last.out.ok )
       => SameModuloCase(last.out.val.metadata,
                         WrittenFor(last.identity, last.dirName).metadata)

\* PfsFiberProfiles.readFits(os.path.join(dirName, PfsFiberProfiles.getFilename(identity)))
readFitsOfName(fs, identity, dirName) ==
    LET name == getFilename(identity)
    IN IF ~name.ok THEN name
       ELSE readFits(fs, PathJoin(dirName, name.val))

C13_HandlesClosed ==
    /\ openHandles = {}
    /\ (last.op = "readFits" /\ last.opened) => disk[last.path].exists
    /\ (last.op \in {"readFits", "read", "writeFits", "write"} /\ last.out.ok) => last.opened

\* readFits opened the file and then failed: an extension is missing, or the
\* masks do not decode, or validation refuses the product
C13_FailedAfterOpen ==
    /\ last.op = "readFits"
    /\ last.opened
    /\ ~last.out.ok
    /\ last.out.err \in {"KeyError", "MaskError", "ValueError", "AssertionError"}
    /\ openHandles = {}

\* start_i: the number of profile rows of the fibers before fiber i
BlockStart(p, i) == SumLen(SubSeq(p.rows, 1, i - 1))

\* the FIBERS table has one row per fiber of p, in the order of p
FibersTableOf(file, p) ==
    /\ file.FIBERS.fiberId = p.fiberId
    /\ file.FIBERS.radius = p.radius
    /\ Len(file.FIBERS.oversample) = Len(p.fiberId)
    /\ Len(file.FIBERS.norm) = Len(p.fiberId)

\* the four columns of the PROFILES table have T = sum of M_i rows
ProfilesTableHasRows(file, p) ==
    /\ Len(file.PROFILES.fiberId) = SumLen(p.rows)
    /\ Len(file.PROFILES.rows) = SumLen(p.rows)
    /\ Len(file.PROFILES.profiles) = SumLen(p.rows)
    /\ Len(file.PROFILES.masks) = SumLen(p.rows)

\* writeFits has just written held, a product with unique fiberId
WroteHeld ==
    /\ last.op = "writeFits"
    /\ last.out.ok
    /\ UniqueFiberId(held)

RowsOfFiber(file, f) ==
    Select([k \in 1..Len(file.PROFILES.fiberId) |-> k],
           [k \in 1..Len(file.PROFILES.fiberId) |-> file.PROFILES.fiberId[k] = f])

\* every stored mask is empty or as long as its data row
MasksFitRows(file) ==
    /\ "FIBERS" \in DOMAIN file
    /\ "PROFILES" \in DOMAIN file
    /\ \A k \in 1..Len(file.PROFILES.masks) :
          Len(file.PROFILES.masks[k]) \in {0, Len(file.PROFILES.profiles[k])}

\* the mask the reader is to give table row k: nothing masked for an empty
\* stored mask, the stored mask otherwise
MaskToRead(file, k) ==
    IF Len(file.PROFILES.masks[k]) = 0
    THEN [c \in 1..Len(file.PROFILES.profiles[k]) |-> FALSE]
    ELSE file.PROFILES.masks[k]

\* C15: a profile row given to the constructor without a mask is written with
\* an empty (length 0) masks entry; reading a row whose stored mask has length
\* 0 gives a row with nothing masked, and a row with a non-empty stored mask
\* gets exactly that mask; row by row, also in a fiber that mixes both.
C15_EmptyMaskMeansUnmasked ==
    /\ (last.op = "writeFits" /\ UniqueFiberId(held)) =>
          /\ last.out.ok
          /\ \A i \in 1..Len(held.fiberId) : \A j \in 1..Len(held.rows[i]) :
                ~held.profiles[i].hasMask
                   => disk[last.path].PROFILES.masks[BlockStart(held, i) + j] = <<>>
    /\ (last.op = "readFits" /\ last.opened /\ MasksFitRows(disk[last.path])) =>
          /\ last.out.ok \/ last.out.err = "AssertionError"
          /\ last.out.ok =>
                \A i \in 1..Len(last.out.val.fiberId) :
                    LET ks == RowsOfFiber(disk[last.path], last.out.val.fiberId[i])
                    IN GetMaskArray(last.out.val.profiles[i])
                           = [j \in 1..Len(ks) |-> MaskToRead(disk[last.path], ks[j])]

\* the keywords of the product written to the path before that the product
\* written now does not have
EarlierKeywords(earlier, latest) ==
    IF earlier.built
    THEN {UpperKey(c[1]) : c \in earlier.metadata} \ {UpperKey(c[1]) : c \in latest.metadata}
    ELSE {}

\* a write of held to a path whose file exists ends well, and readFits of the
\* path then returns held, without a keyword of the product written before
OverwriteReadsBack(path, out) ==
    disk[path].exists =>
        /\ out.ok
        /\ readFits(disk', path).ok
        /\ SameProduct(readFits(disk', path).val, held)
        /\ Keywords(readFits(disk', path).val.metadata)
               \cap EarlierKeywords(wrote[path], held) = {}

\* C16: after writeFits/write calls that target the same path, each later
\* call succeeds although the file already exists, and a following readFits of
\* the path returns the product of the most recent write, with no row or
\* keyword of an earlier product remaining.  (writeFits is taken with the
\* path that names the identity of the product, the one readFits parses.)
C16_LaterWriteReplacesFile ==
    [][ /\ (last'.op = "writeFits" /\ UniqueFiberId(held) /\ held.identity = IdA)
           => OverwriteReadsBack(last'.path, last'.out)
        /\ (last'.op = "write" /\ UniqueFiberId(held))
           => OverwriteReadsBack(PathJoin(last'.dirName, CanonicalName(held.identity)),
                                 last'.out) ]_vars

============================================================================
